---- MODULE Spec2Model ----
(***************************************************************************)
(* Model of src/app.py: a Streamlit page with a "Generate Code" button     *)
(* (posts the description to an n8n webhook and caches the returned code   *)
(* in st.session_state["generated_code"]) and a "Run Generated App"        *)
(* button (exec()s the cached code and calls its render_app()).            *)
(*                                                                         *)
(* One step of the model is one script run of main(): Streamlit reruns the *)
(* whole script on every widget event, with at most one button reporting   *)
(* True.  Strings are sequences of one-character strings.  Generated       *)
(* programs are sequences of statements, one character each:               *)
(*    " "  blank                                                           *)
(*    "D"  def render_app(): <returns normally>                            *)
(*    "R"  def render_app(): raise ValueError                              *)
(*    "N"  render_app = 5                (not callable)                    *)
(*    "X"  raise RuntimeError            (at top level)                    *)
(*    "O"  if "once" in globals(): raise RuntimeError                      *)
(*         once = True                                                     *)
(* Generated programs touch nothing but their own namespace; raised        *)
(* exceptions are subclasses of Exception.                                 *)
(***************************************************************************)
EXTENDS Integers, Sequences, FiniteSets, TLC

\* ---------------------------------------------------------------- bounds
MaxCodeLen == 2

\* --------------------------------------------------------------- strings
Whitespace == {" "}
CodeChars == {" ", "D", "R", "N", "X", "O"}

StringsOver(chars, n) == UNION {[1..k -> chars] : k \in 0..n}

RECURSIVE lstrip(_)
lstrip(s) ==
  IF s = <<>> THEN <<>>
  ELSE IF Head(s) \in Whitespace THEN lstrip(Tail(s))
  ELSE s

RECURSIVE rstrip(_)
rstrip(s) ==
  IF s = <<>> THEN <<>>
  ELSE IF s[Len(s)] \in Whitespace THEN rstrip(SubSeq(s, 1, Len(s) - 1))
  ELSE s

\* str.strip()
strip(s) == rstrip(lstrip(s))

\* descriptions the user may type into the text area (line 61)
Prompts == {<<>>, <<" ">>, <<"a">>, <<" ", "a", " ">>}

\* ------------------------------------------------------------- UI labels
AppLabel == <<"Generate", "App", "(tkinter-style", "utility)">>
GameLabel == <<"Generate", "Game", "(pygame-style", "logic)">>
ModeLabels == {AppLabel, GameLabel}

\* lines 84-87: if "App" in mode_label
mode_value(label) ==
  IF \E i \in 1..Len(label) : label[i] = "App" THEN "app" ELSE "game"

\* ------------------------------------------------------------- banners
Banner(level, text, detail) == [level |-> level, text |-> text, detail |-> detail]

WarnBlankPrompt == Banner("warning", "Please enter a description", "")
ErrContacting(e) == Banner("error", "Error contacting n8n", e)
ErrNoCode == Banner("error", "No code received from n8n", "")
SuccessGenerated == Banner("success", "Code generated successfully", "")
WarnGenerateFirst == Banner("warning", "Generate the code first", "")
InfoRunning == Banner("info", "Running generated app below", "")
ErrNotFound == Banner("error", "render_app() function not found", "")
ErrWhileRunning(e) == Banner("error", "Error while running the generated app", e)

\* ------------------------------------------------- webhook responses
\* What requests.post would bring back if the call is made.
NoBody == [kind |-> "text"]
CodeFields ==
  {[kind |-> "absent"], [kind |-> "null"]}
    \cup {[kind |-> "number", n |-> n] : n \in {0, 7}}
    \cup {[kind |-> "string", s |-> s] : s \in StringsOver(CodeChars, MaxCodeLen)}
Bodies ==
  {[kind |-> "text"], [kind |-> "array"]}
    \cup {[kind |-> "object", code |-> f] : f \in CodeFields}
Responses ==
  {[transport |-> t, status |-> 0, body |-> NoBody] : t \in {"ConnectionError", "Timeout"}}
    \cup {[transport |-> "ok", status |-> st, body |-> NoBody] : st \in {404, 500}}
    \cup {[transport |-> "ok", status |-> st, body |-> b] : st \in {200}, b \in Bodies}

\* lines 24: resp.raise_for_status()
raise_for_status(status) == status >= 400 /\ status < 600

\* line 26: data.get("code") or ""   ("falsy" values become "")
code_or_empty(f) ==
  CASE f.kind = "absent" -> [kind |-> "string", s |-> <<>>]
    [] f.kind = "null" -> [kind |-> "string", s |-> <<>>]
    [] f.kind = "number" -> IF f.n = 0 THEN [kind |-> "string", s |-> <<>>] ELSE f
    [] f.kind = "string" -> f

\* mutant: the except clause returns "" without st.error
ClientFail_quiet(payload, e) ==
  [code |-> <<>>, banners |-> <<>>, posted |-> <<payload>>]

ClientFail(payload, e) ==
  [code |-> <<>>, banners |-> <<ErrContacting(e)>>, posted |-> <<payload>>]

\* mutant: line 26 without .strip()
call_n8n_generate_code_nostrip(p, mode, resp) ==
  LET payload == [prompt |-> p, mode |-> mode]
  IN  IF resp.transport # "ok" THEN ClientFail(payload, resp.transport)
      ELSE IF raise_for_status(resp.status) THEN ClientFail(payload, "HTTPError")
      ELSE IF resp.body.kind = "text" THEN ClientFail(payload, "JSONDecodeError")
      ELSE IF resp.body.kind = "array" THEN ClientFail(payload, "AttributeError")
      ELSE LET v == code_or_empty(resp.body.code)
           IN  IF v.kind # "string" THEN ClientFail(payload, "AttributeError")
               ELSE [code |-> v.s, banners |-> <<>>, posted |-> <<payload>>]

\* lines 11-30
call_n8n_generate_code(p, mode, resp) ==
  LET payload == [prompt |-> p, mode |-> mode]
  IN  IF resp.transport # "ok" THEN ClientFail(payload, resp.transport)
      ELSE IF raise_for_status(resp.status) THEN ClientFail(payload, "HTTPError")
      ELSE IF resp.body.kind = "text" THEN ClientFail(payload, "JSONDecodeError")
      ELSE IF resp.body.kind = "array" THEN ClientFail(payload, "AttributeError")
      ELSE LET v == code_or_empty(resp.body.code)
           IN  IF v.kind # "string" THEN ClientFail(payload, "AttributeError")
               ELSE [code |-> strip(v.s), banners |-> <<>>, posted |-> <<payload>>]

\* ------------------------------------------------------------- state
VARIABLES
  generated_code,  \* st.session_state["generated_code"]
  prompt,          \* value of the text area widget
  mode_label,      \* value of the radio widget
  lastEvent,       \* what triggered the last script run
  banners,         \* host banners shown by the last script run, in order
  posted,          \* payloads posted to the webhook by the last script run
  response,        \* <<r>> if the webhook answered r in the last script run
  returned,        \* <<c>> if call_n8n_generate_code returned c in the last run
  executed,        \* exec() was called in the last script run
  looked_up,       \* local_ns.get("render_app") was evaluated in the last run
  invoked,         \* render_func() was called in the last script run
  rendered,        \* render_func() returned normally in the last script run
  run_ns,          \* <<local_ns>> as the last script run left it, or <<>>
  preview,         \* what the preview section of the last script run showed
  lastGood         \* history: trimmed code of the latest successful generation

vars == <<generated_code, prompt, mode_label, lastEvent, banners, posted,
          response, returned, executed, looked_up, invoked, rendered, run_ns,
          preview, lastGood>>

\* ------------------------------------------------------------- executor
Bindings == {"unbound", "ok", "raises", "noncallable"}

\* mutant: local_ns is kept from the previous run instead of rebuilt
StaleNs ==
  IF run_ns = <<>> THEN [st |-> TRUE, render_app |-> "unbound", once |-> FALSE]
  ELSE run_ns[1]

\* line 123: local_ns = {"st": st}
FreshNs == [st |-> TRUE, render_app |-> "unbound", once |-> FALSE]

\* the statements of a generated program, one at a time
exec_stmt(c, ns) ==
  CASE c = " " -> [ns |-> ns, raised |-> ""]
    [] c = "D" -> [ns |-> [ns EXCEPT !.render_app = "ok"], raised |-> ""]
    [] c = "R" -> [ns |-> [ns EXCEPT !.render_app = "raises"], raised |-> ""]
    [] c = "N" -> [ns |-> [ns EXCEPT !.render_app = "noncallable"], raised |-> ""]
    [] c = "X" -> [ns |-> ns, raised |-> "RuntimeError"]
    [] c = "O" -> IF ns.once THEN [ns |-> ns, raised |-> "RuntimeError"]
                  ELSE [ns |-> [ns EXCEPT !.once = TRUE], raised |-> ""]

\* line 127: exec(code, local_ns, local_ns); stops at the first raise
RECURSIVE exec(_, _)
exec(code, ns) ==
  IF code = <<>> THEN [ns |-> ns, raised |-> ""]
  ELSE LET r == exec_stmt(Head(code), ns)
       IN  IF r.raised # "" THEN r ELSE exec(Tail(code), r.ns)

\* mutant: `if render_func is not None` instead of callable()
callable_bound(binding) == binding # "unbound"

\* line 130: callable(render_func); None (name absent) is not callable
callable(binding) == binding \in {"ok", "raises"}

\* line 131: render_func(); "" when it returns normally, else what it raises
\* (calling None or 5 is a TypeError)
call_render_func(binding) ==
  CASE binding = "ok" -> ""
    [] binding = "raises" -> "ValueError"
    [] OTHER -> "TypeError"

NoRun ==
  [banners |-> <<>>, executed |-> FALSE, looked_up |-> FALSE,
   invoked |-> FALSE, rendered |-> FALSE, ns |-> <<>>]

\* mutant: `except Exception: pass`, nothing is reported
run_code_silent(code, ns0) ==
  LET x == exec(code, ns0)
  IN  IF x.raised # ""
      THEN [banners |-> <<InfoRunning>>,
            executed |-> TRUE, looked_up |-> FALSE, invoked |-> FALSE,
            rendered |-> FALSE, ns |-> <<x.ns>>]
      ELSE IF callable(x.ns.render_app)
      THEN [banners |-> <<InfoRunning>>,
            executed |-> TRUE, looked_up |-> TRUE, invoked |-> TRUE,
            rendered |-> (call_render_func(x.ns.render_app) = ""), ns |-> <<x.ns>>]
      ELSE [banners |-> <<InfoRunning, ErrNotFound>>,
            executed |-> TRUE, looked_up |-> TRUE, invoked |-> FALSE,
            rendered |-> FALSE, ns |-> <<x.ns>>]

\* mutant: exec has a try of its own, the lookup and the call follow it
\* whether or not it raised
run_code_continue(code, ns0) ==
  LET x == exec(code, ns0)
      pre == IF x.raised # "" THEN <<InfoRunning, ErrWhileRunning(x.raised)>>
             ELSE <<InfoRunning>>
  IN  IF callable(x.ns.render_app)
      THEN LET e == call_render_func(x.ns.render_app)
           IN  [banners |-> IF e = "" THEN pre ELSE pre \o <<ErrWhileRunning(e)>>,
                executed |-> TRUE, looked_up |-> TRUE, invoked |-> TRUE,
                rendered |-> (e = ""), ns |-> <<x.ns>>]
      ELSE [banners |-> pre \o <<ErrNotFound>>,
            executed |-> TRUE, looked_up |-> TRUE, invoked |-> FALSE,
            rendered |-> FALSE, ns |-> <<x.ns>>]

\* lines 125-139: the try block around exec, the lookup and the call
run_code(code, ns0) ==
  LET x == exec(code, ns0)
  IN  IF x.raised # ""
      THEN [banners |-> <<InfoRunning, ErrWhileRunning(x.raised)>>,
            executed |-> TRUE, looked_up |-> FALSE, invoked |-> FALSE,
            rendered |-> FALSE, ns |-> <<x.ns>>]
      ELSE IF callable(x.ns.render_app)
      THEN LET e == call_render_func(x.ns.render_app)
           IN  [banners |-> IF e = "" THEN <<InfoRunning>>
                            ELSE <<InfoRunning, ErrWhileRunning(e)>>,
                executed |-> TRUE, looked_up |-> TRUE, invoked |-> TRUE,
                rendered |-> (e = ""), ns |-> <<x.ns>>]
      ELSE [banners |-> <<InfoRunning, ErrNotFound>>,
            executed |-> TRUE, looked_up |-> TRUE, invoked |-> FALSE,
            rendered |-> FALSE, ns |-> <<x.ns>>]

\* lines 114-139: the body of `if st.button("Run Generated App")`
run_button(slot) ==
  LET code == strip(slot)
  IN  IF code = <<>>
      THEN [NoRun EXCEPT !.banners = <<WarnGenerateFirst>>]
      ELSE run_code(code, FreshNs)

NoGenerate(slot) ==
  [slot |-> slot, banners |-> <<>>, posted |-> <<>>, returned |-> <<>>]

\* mutant: line 109 runs whatever the client returned
generate_button_clears(slot, p, label, resp) ==
  IF strip(p) = <<>>
  THEN [NoGenerate(slot) EXCEPT !.banners = <<WarnBlankPrompt>>]
  ELSE LET c == call_n8n_generate_code(strip(p), mode_value(label), resp)
       IN  IF c.code = <<>>
           THEN [slot |-> c.code, banners |-> c.banners \o <<ErrNoCode>>,
                 posted |-> c.posted, returned |-> <<c.code>>]
           ELSE [slot |-> c.code, banners |-> c.banners \o <<SuccessGenerated>>,
                 posted |-> c.posted, returned |-> <<c.code>>]

\* mutant: line 98 tests `if not prompt` (no strip)
generate_button_nostrip(slot, p, label, resp) ==
  IF p = <<>>
  THEN [NoGenerate(slot) EXCEPT !.banners = <<WarnBlankPrompt>>]
  ELSE LET c == call_n8n_generate_code(strip(p), mode_value(label), resp)
       IN  IF c.code = <<>>
           THEN [slot |-> slot, banners |-> c.banners \o <<ErrNoCode>>,
                 posted |-> c.posted, returned |-> <<c.code>>]
           ELSE [slot |-> c.code, banners |-> c.banners \o <<SuccessGenerated>>,
                 posted |-> c.posted, returned |-> <<c.code>>]

\* lines 97-110: the body of `if st.button("Generate Code")`
generate_button(slot, p, label, resp) ==
  IF strip(p) = <<>>
  THEN [NoGenerate(slot) EXCEPT !.banners = <<WarnBlankPrompt>>]
  ELSE LET c == call_n8n_generate_code(strip(p), mode_value(label), resp)
       IN  IF c.code = <<>>
           THEN [slot |-> slot, banners |-> c.banners \o <<ErrNoCode>>,
                 posted |-> c.posted, returned |-> <<c.code>>]
           ELSE [slot |-> c.code, banners |-> c.banners \o <<SuccessGenerated>>,
                 posted |-> c.posted, returned |-> <<c.code>>]

\* lines 141-148: the code preview
code_preview(slot) ==
  LET generated == strip(slot)
  IN  IF generated # <<>> THEN [kind |-> "code", text |-> generated]
      ELSE [kind |-> "placeholder", text |-> <<>>]

\* the response counts as a successful generation: 2xx, a JSON object, a
\* string code field with something other than whitespace in it
SuccessfulResponse(r) ==
  /\ r.transport = "ok"
  /\ r.status >= 200 /\ r.status < 300
  /\ r.body.kind = "object"
  /\ r.body.code.kind = "string"
  /\ \E i \in 1..Len(r.body.code.s) : r.body.code.s[i] \notin Whitespace

\* mutant: the executor replays on every redraw with a non-empty slot
main_autoreplay(ev, gen, run, p, label, resp) ==
  \E g \in {IF gen THEN generate_button(generated_code, p, label, resp)
              ELSE NoGenerate(generated_code)} :
  \E r \in {IF run \/ strip(g.slot) # <<>> THEN run_button(g.slot) ELSE NoRun} :
      /\ generated_code' = g.slot
      /\ prompt' = p
      /\ mode_label' = label
      /\ lastEvent' = ev
      /\ banners' = g.banners \o r.banners
      /\ posted' = g.posted
      /\ response' = IF g.posted # <<>> THEN <<resp>> ELSE <<>>
      /\ returned' = g.returned
      /\ executed' = r.executed
      /\ looked_up' = r.looked_up
      /\ invoked' = r.invoked
      /\ rendered' = r.rendered
      /\ run_ns' = r.ns
      /\ preview' = code_preview(g.slot)
      /\ lastGood' = IF g.posted # <<>> /\ SuccessfulResponse(resp)
                     THEN strip(resp.body.code.s) ELSE lastGood

\* mutant: the Generate click goes on to run what it has just cached
main_onebutton(ev, gen, run, p, label, resp) ==
  \E g \in {IF gen THEN generate_button(generated_code, p, label, resp)
              ELSE NoGenerate(generated_code)} :
  \E r \in {IF run \/ (gen /\ g.returned # <<>> /\ g.returned[1] # <<>>) THEN run_button(g.slot) ELSE NoRun} :
      /\ generated_code' = g.slot
      /\ prompt' = p
      /\ mode_label' = label
      /\ lastEvent' = ev
      /\ banners' = g.banners \o r.banners
      /\ posted' = g.posted
      /\ response' = IF g.posted # <<>> THEN <<resp>> ELSE <<>>
      /\ returned' = g.returned
      /\ executed' = r.executed
      /\ looked_up' = r.looked_up
      /\ invoked' = r.invoked
      /\ rendered' = r.rendered
      /\ run_ns' = r.ns
      /\ preview' = code_preview(g.slot)
      /\ lastGood' = IF g.posted # <<>> /\ SuccessfulResponse(resp)
                     THEN strip(resp.body.code.s) ELSE lastGood

\* lines 33-148: one script run.  gen/run: which button reports True;
\* p, label: the widget values of this run; resp: the webhook's answer
main(ev, gen, run, p, label, resp) ==
  \E g \in {IF gen THEN generate_button(generated_code, p, label, resp)
              ELSE NoGenerate(generated_code)} :
  \E r \in {IF run THEN run_button(g.slot) ELSE NoRun} :
      /\ generated_code' = g.slot
      /\ prompt' = p
      /\ mode_label' = label
      /\ lastEvent' = ev
      /\ banners' = g.banners \o r.banners
      /\ posted' = g.posted
      /\ response' = IF g.posted # <<>> THEN <<resp>> ELSE <<>>
      /\ returned' = g.returned
      /\ executed' = r.executed
      /\ looked_up' = r.looked_up
      /\ invoked' = r.invoked
      /\ rendered' = r.rendered
      /\ run_ns' = r.ns
      /\ preview' = code_preview(g.slot)
      /\ lastGood' = IF g.posted # <<>> /\ SuccessfulResponse(resp)
                     THEN strip(resp.body.code.s) ELSE lastGood

AnyResponse == CHOOSE r \in Responses : TRUE

\* the state after the first script run of a new session (lines 92-93)
Init ==
  /\ generated_code = <<>>
  /\ prompt = <<>>
  /\ mode_label = AppLabel
  /\ lastEvent = "load"
  /\ banners = <<>>
  /\ posted = <<>>
  /\ response = <<>>
  /\ returned = <<>>
  /\ executed = FALSE
  /\ looked_up = FALSE
  /\ invoked = FALSE
  /\ rendered = FALSE
  /\ run_ns = <<>>
  /\ preview = code_preview(<<>>)
  /\ lastGood = <<>>

\* the user types a new description (line 61); no button is pressed
EditPrompt ==
  \E p \in Prompts :
    /\ p # prompt
    /\ main("redraw", FALSE, FALSE, p, mode_label, AnyResponse)

\* the user picks the other generation type (line 73)
SelectMode ==
  \E m \in ModeLabels :
    /\ m # mode_label
    /\ main("redraw", FALSE, FALSE, prompt, m, AnyResponse)

\* a redraw with no change to the host's widgets
Redraw == main("redraw", FALSE, FALSE, prompt, mode_label, AnyResponse)

\* a click on "Generate Code" (line 97)
ClickGenerate ==
  \E resp \in Responses :
    main("generate", TRUE, FALSE, prompt, mode_label, resp)

\* a click on "Run Generated App" (line 114)
ClickRun == main("run", FALSE, TRUE, prompt, mode_label, AnyResponse)

Next == EditPrompt \/ SelectMode \/ Redraw \/ ClickGenerate \/ ClickRun

Spec == Init /\ [][Next]_vars

\* ============================================================== claims

IsBlank(s) == \A i \in 1..Len(s) : s[i] \in Whitespace

ErrorBanners == {i \in 1..Len(banners) : banners[i].level = "error"}

\* the last Generate click reached the webhook and the generation failed
GenerationFailed ==
  /\ lastEvent = "generate"
  /\ response # <<>>
  /\ ~SuccessfulResponse(response[1])

\* the failure is one the client meets as an exception: transport error,
\* timeout, error status, a body that is not JSON, JSON that is not an
\* object, a code field that is a non-zero number
ClientRaises(r) ==
  \/ r.transport # "ok"
  \/ r.status >= 400
  \/ r.body.kind # "object"
  \/ (r.body.code.kind = "number" /\ r.body.code.n # 0)

DefinesRenderApp(code) == \E i \in 1..Len(code) : code[i] \in {"D", "R", "N"}

\* C1: in every reachable state the session slot generated_code is the
\* trimmed code of the most recent successful generation, or empty when no
\* generation has succeeded yet; nothing but a successful generation
\* changes it.
C1_SlotIsLastSuccessfulGeneration == generated_code = lastGood

C1_Witness ==
  /\ lastEvent = "generate"
  /\ response # <<>>
  /\ SuccessfulResponse(response[1])
  /\ response[1].body.code.s # generated_code
  /\ generated_code # <<>>

C3_BlankDescriptionNoCall ==
  [][(lastEvent' = "generate" /\ IsBlank(prompt')) =>
       /\ posted' = <<>>
       /\ response' = <<>>
       /\ banners' = <<WarnBlankPrompt>>
       /\ generated_code' = generated_code]_vars

C3_Witness ==
  /\ lastEvent = "generate"
  /\ prompt # <<>>
  /\ IsBlank(prompt)
  /\ banners = <<WarnBlankPrompt>>
  /\ generated_code # <<>>

\* C4 as stated: in every page redraw with a non-empty slot the executor
\* runs the stored code.
C4_ExecutorOnEveryRedraw == generated_code # <<>> => executed

\* C4 amended: the executor runs exactly in the redraws that a Run click
\* triggers while the slot is non-empty; every other redraw with a
\* non-empty slot only shows the stored code in the preview.
C4_ExecutorOnlyOnRunClick ==
  /\ executed <=> (lastEvent = "run" /\ generated_code # <<>>)
  /\ generated_code # <<>> =>
       preview = [kind |-> "code", text |-> generated_code]

C4_Witness ==
  /\ lastEvent = "redraw"
  /\ generated_code # <<>>
  /\ ~executed
  /\ preview.kind = "code"

\* the last run got as far as calling a render_app that raises
EntryPointRaised ==
  /\ lastEvent = "run"
  /\ looked_up
  /\ run_ns # <<>>
  /\ run_ns[1].render_app = "raises"

\* C5: when render_app raises, the error is caught and reported, the
\* redraw still reaches the code preview, the session (slot and widget
\* values) is what it was before the run, and Generate, Run and redraw
\* stay enabled.
C5_EntryPointErrorContained ==
  /\ [][EntryPointRaised' =>
          /\ invoked' /\ ~rendered'
          /\ banners' = <<InfoRunning, ErrWhileRunning("ValueError")>>
          /\ preview' = [kind |-> "code", text |-> generated_code]
          /\ generated_code' = generated_code
          /\ prompt' = prompt
          /\ mode_label' = mode_label]_vars
  /\ [](EntryPointRaised =>
          ENABLED ClickGenerate /\ ENABLED ClickRun /\ ENABLED Redraw)

C5_Witness ==
  /\ EntryPointRaised
  /\ invoked
  /\ ErrorBanners # {}
  /\ preview.kind = "code"

\* C6: when the stored code runs without error but leaves render_app
\* unbound or bound to a non-callable, nothing is invoked and the one error
\* shown is the "render_app() function not found" message.
C6_MissingEntryPointMessage ==
  (/\ lastEvent = "run"
   /\ looked_up
   /\ run_ns # <<>>
   /\ run_ns[1].render_app \in {"unbound", "noncallable"})
    => /\ ~invoked
       /\ banners = <<InfoRunning, ErrNotFound>>

C6_Witness ==
  /\ lastEvent = "run"
  /\ looked_up
  /\ run_ns[1].render_app = "noncallable"
  /\ banners = <<InfoRunning, ErrNotFound>>

LoadRaises(code) ==
  exec(strip(code), [st |-> TRUE, render_app |-> "unbound", once |-> FALSE]).raised # ""

\* C8: when top-level execution of the stored code raises, the error is
\* reported and render_app is neither looked up nor invoked, even if the
\* code had bound it before the failure; an invocation happens only after
\* the whole program ran without error.
C8_NoLookupAfterLoadError ==
  /\ (lastEvent = "run" /\ generated_code # <<>> /\ LoadRaises(generated_code))
       => /\ executed
          /\ ~looked_up /\ ~invoked /\ ~rendered
          /\ banners = <<InfoRunning, ErrWhileRunning("RuntimeError")>>
  /\ invoked => (looked_up /\ executed /\ ~LoadRaises(generated_code))

C8_Witness ==
  /\ lastEvent = "run"
  /\ executed
  /\ run_ns[1].render_app = "ok"
  /\ LoadRaises(generated_code)
  /\ ~looked_up

\* C9: a Run click right after a Run click shows the same banners, outcome
\* and namespace as the first; every run starts from a namespace holding
\* only the injected handle, so a name is bound after a run only if the
\* stored code binds it.
C9_RunIdempotent ==
  [][lastEvent' = "run" =>
       /\ lastEvent = "run" =>
            /\ banners' = banners
            /\ executed' = executed
            /\ looked_up' = looked_up
            /\ invoked' = invoked
            /\ rendered' = rendered
            /\ run_ns' = run_ns
            /\ preview' = preview
       /\ run_ns' # <<>> =>
            /\ run_ns'[1].st
            /\ run_ns'[1].render_app # "unbound" => DefinesRenderApp(generated_code')
            /\ run_ns'[1].once => \E i \in 1..Len(generated_code') : generated_code'[i] = "O"]_vars

C9_Witness ==
  /\ lastEvent = "run"
  /\ rendered
  /\ run_ns[1].once
  /\ banners = <<InfoRunning>>

\* C10: a Generate click never runs the executor and posts at most once; a
\* Run click posts nothing and leaves the session slot as it was, whatever
\* the run's outcome.
C10_TwoButtonSeparation ==
  [][/\ lastEvent' = "generate" =>
          /\ ~executed' /\ ~looked_up' /\ ~invoked' /\ ~rendered'
          /\ run_ns' = <<>>
          /\ Len(posted') <= 1
     /\ lastEvent' = "run" =>
          /\ posted' = <<>>
          /\ response' = <<>>
          /\ returned' = <<>>
          /\ generated_code' = generated_code]_vars

C10_Witness ==
  /\ lastEvent = "generate"
  /\ posted # <<>>
  /\ generated_code # <<>>
  /\ banners = <<SuccessGenerated>>
  /\ ~executed

====
